---- MODULE Spec2Model ----
(***************************************************************************)
(* Model of torch/csrc/distributed/c10d/ProcessGroup.cpp:                  *)
(*   - the WorkRegistry (pending collective work per tensor storage) and   *)
(*     the free functions c10d::register_work, c10d::wait_tensor,          *)
(*     c10d::unregister_completed_works, c10d::get_work_registry_size;     *)
(*   - ProcessGroup::getBackend and ProcessGroup::release_resources.       *)
(* Two specifications: Spec (the registry, two threads, one lock) and      *)
(* GroupSpec (backend resolution of one ProcessGroup).                     *)
(***************************************************************************)
EXTENDS Integers, Sequences, FiniteSets, TLC

\* ---------------------------------------------------------------- bounds
\* Number of Work handles the callers issue in one run.
MaxWorks == 2

\* ------------------------------------------------------------ finite sets
Threads == {"t1", "t2"}
Storages == {"s1", "s2"}
NoStorage == "none"
\* A tensor is identified by its storage; NoStorage is a tensor for which
\* has_storage() is false.
Tensors == Storages \cup {NoStorage}
Works == 1..MaxWorks
Free == "free"

VARIABLES
  \* ---- WorkRegistry and its callers
  registry,      \* registry_: storage -> sequence of works (a partial map)
  lock,          \* lock_: Free or the thread that holds it
  pc,            \* position of each thread
  arg,           \* the tensor of the call a thread is in or returns from
  works,         \* wait_tensor: the local `works` returned by pop_works
  idx,           \* wait_tensor: index of the next work of the range-for
  defined,       \* Work handle: intrusive_ptr::defined()
  status,        \* Work handle: "pending" or "completed"
  nextWork,      \* number of handles inserted in registry_ so far
  cudaAvailable, \* at::cuda::is_available(); false in a build without USE_CUDA
  capturing,     \* at::cuda::CUDAGraph::is_capturing()
  warnings,      \* TORCH_WARN of ~WorkRegistry: the counts reported
  released,      \* handles released by ~WorkRegistry
  destroyed,     \* ~WorkRegistry has run
  \* ---- history of the run (what the callers observed)
  regTensor,     \* handle -> storage it was inserted for
  waitCount,     \* handle -> number of wait() calls made on it
  pruned,        \* handles dropped by unregister_completed_works
  popped,        \* handles removed by pop_works
  waitCalled,    \* wait_tensor has been called in this run
  sweepCalled,   \* c10d::unregister_completed_works has been called
  owed,          \* thread -> handles inserted for its storage that were out
                 \*   of registry_ and not completed when its wait_tensor began
  doneAtBegin,   \* thread -> handles in registry_ that were completed when
                 \*   its register_work began
  \* ---- ProcessGroup
  deviceTypeToBackendType, \* deviceTypeToBackendType_
  backendTypeToBackend,    \* backendTypeToBackend_
  deviceTypeToBackend,     \* deviceTypeToBackend_
  store,                   \* store_ holds a Store
  lastCall,                \* the last call made on the group and what it did
  prevCall,                \* the call made before it
  pgDesc,                  \* pg_desc_
  backendUid,              \* Backend -> the group uid it was last given
  backendDesc,             \* Backend -> the group description it was given
  backendTiming,           \* Backend -> collectives timing is enabled
  inert                    \* release_resources has run on the group

rvars == <<registry, lock, pc, arg, works, idx, defined, status, nextWork,
           cudaAvailable, capturing, warnings, released, destroyed,
           regTensor, waitCount, pruned, popped, waitCalled, sweepCalled,
           owed, doneAtBegin>>
bvars == <<pgDesc, backendUid, backendDesc, backendTiming>>
gvars == <<deviceTypeToBackendType, backendTypeToBackend, deviceTypeToBackend,
           store, lastCall, prevCall, bvars, inert>>
vars == <<rvars, gvars>>

\* ------------------------------------------------------------ map helpers
EmptyMap == [k \in {} |-> <<>>]
Erase(m, k) == [j \in DOMAIN m \ {k} |-> m[j]]
Put(m, k, v) == [j \in DOMAIN m \cup {k} |-> IF j = k THEN v ELSE m[j]]
Range(s) == {s[i] : i \in DOMAIN s}
RECURSIVE SumLen(_, _)
SumLen(m, ks) ==
  IF ks = {} THEN 0
  ELSE LET k == CHOOSE x \in ks : TRUE IN Len(m[k]) + SumLen(m, ks \ {k})

\* ------------------------------------------------------- Work collaborator
\* Work::isCompleted(): the operation has finished, with or without error.
IsCompleted(w) == status[w] = "completed"

\* ----------------------------------------------------------- WorkRegistry
\* register_work with the new work put in front of the list.
RegistryInsertFront(r, storage, work) ==
  IF storage \notin DOMAIN r
    THEN Put(r, storage, <<work>>)
    ELSE Put(r, storage, <<work>> \o r[storage])

\* register_work storing the new work over the list found: what an insertion
\* that does not see a concurrent one would leave.
RegistryInsertOverwrite(r, storage, work) == Put(r, storage, <<work>>)

\* WorkRegistry::register_work, the part under the lock.
RegistryInsert(r, storage, work) ==
  IF storage \notin DOMAIN r
    THEN Put(r, storage, <<work>>)
    ELSE Put(r, storage, Append(r[storage], work))

\* WorkRegistry::pop_works: the handles returned, and the map afterwards.
PopWorksResult(r, storage) ==
  IF storage \notin DOMAIN r THEN <<>> ELSE r[storage]

\* pop_works without registry_.erase(it).
PopWorksRegistryNoErase(r, storage) == r

\* pop_works moving the list out and leaving the key behind.
PopWorksRegistryLeaveEmpty(r, storage) ==
  IF storage \notin DOMAIN r THEN r ELSE Put(r, storage, <<>>)

PopWorksRegistry(r, storage) ==
  IF storage \notin DOMAIN r THEN r ELSE Erase(r, storage)

\* WorkRegistry::can_unregister_completed_works. Without USE_CUDA (or with
\* USE_ROCM) the test is compiled out, which is the case cudaAvailable = FALSE.
CanUnregisterCompletedWorks ==
  IF cudaAvailable /\ ~capturing THEN FALSE ELSE TRUE

\* The inner loop keeping a handle that is not defined.
UncompletedWorksKeepUndefined(ws) ==
  SelectSeq(ws, LAMBDA w : ~defined[w] \/ ~IsCompleted(w))

\* The inner loop of unregister_completed_works: the works that are kept.
UncompletedWorks(ws) ==
  SelectSeq(ws, LAMBDA w : defined[w] /\ ~IsCompleted(w))

\* unregister_completed_works without the erase of an entry left empty.
UnregisterCompletedWorksNoErase(r) ==
  [k \in DOMAIN r |-> UncompletedWorks(r[k])]

\* WorkRegistry::unregister_completed_works: the map afterwards.
UnregisterCompletedWorks(r) ==
  LET kept == {k \in DOMAIN r : UncompletedWorks(r[k]) # <<>>}
  IN  [k \in kept |-> UncompletedWorks(r[k])]

\* get_work_registry_size counting the entries instead of their works.
GetWorkRegistrySizeEntries(r) == Cardinality(DOMAIN r)

\* WorkRegistry::get_work_registry_size.
GetWorkRegistrySize(r) == SumLen(r, DOMAIN r)

\* ----------------------------------------------------------- ProcessGroup
DeviceTypes == {"CPU", "CUDA"}
BackendTypes == {"GLOO", "NCCL"}
Backends == {"b1", "b2"}
NoBackend == "none"
Names == {"n1", "n2"}
NoName == "none"
PartialMaps(D, R) == UNION {[X -> R] : X \in SUBSET D}

\* What a call on the group did: the operation, its argument (a device type
\* or a name), whether it returned, the backend or the name it returned, which
\* maps it read after the cache, and whether it changed the group.
NoCall ==
  [op |-> "none", dev |-> "none", ok |-> FALSE, backend |-> NoBackend,
   readTypeMap |-> FALSE, readIndex |-> FALSE, changed |-> FALSE,
   name |-> NoName]

\* getBackend reading backendTypeToBackend_ with operator[], which yields an
\* empty pointer for a backend type that has no instance.
GetBackendNoIndexCheck(deviceType) ==
  IF deviceType \in DOMAIN deviceTypeToBackend
    THEN [ok |-> TRUE, backend |-> deviceTypeToBackend[deviceType],
          cache |-> deviceTypeToBackend,
          readTypeMap |-> FALSE, readIndex |-> FALSE]
  ELSE IF deviceType \notin DOMAIN deviceTypeToBackendType
    THEN [ok |-> FALSE, backend |-> NoBackend, cache |-> deviceTypeToBackend,
          readTypeMap |-> TRUE, readIndex |-> FALSE]
  ELSE LET backendType == deviceTypeToBackendType[deviceType]
           backend == IF backendType \in DOMAIN backendTypeToBackend
                        THEN backendTypeToBackend[backendType] ELSE NoBackend
       IN [ok |-> TRUE, backend |-> backend,
           cache |-> Put(deviceTypeToBackend, deviceType, backend),
           readTypeMap |-> TRUE, readIndex |-> TRUE]

\* getBackend without deviceTypeToBackend_[deviceType] = backend.
GetBackendNoCache(deviceType) ==
  IF deviceType \in DOMAIN deviceTypeToBackend
    THEN [ok |-> TRUE, backend |-> deviceTypeToBackend[deviceType],
          cache |-> deviceTypeToBackend,
          readTypeMap |-> FALSE, readIndex |-> FALSE]
  ELSE IF deviceType \notin DOMAIN deviceTypeToBackendType
    THEN [ok |-> FALSE, backend |-> NoBackend, cache |-> deviceTypeToBackend,
          readTypeMap |-> TRUE, readIndex |-> FALSE]
  ELSE LET backendType == deviceTypeToBackendType[deviceType] IN
    IF backendType \in DOMAIN backendTypeToBackend
      THEN [ok |-> TRUE, backend |-> backendTypeToBackend[backendType],
            cache |-> deviceTypeToBackend,
            readTypeMap |-> TRUE, readIndex |-> TRUE]
      ELSE [ok |-> FALSE, backend |-> NoBackend, cache |-> deviceTypeToBackend,
            readTypeMap |-> TRUE, readIndex |-> TRUE]

\* ProcessGroup::getBackend(deviceType): the outcome and the cache afterwards.
GetBackend(deviceType) ==
  IF deviceType \in DOMAIN deviceTypeToBackend
    THEN [ok |-> TRUE, backend |-> deviceTypeToBackend[deviceType],
          cache |-> deviceTypeToBackend,
          readTypeMap |-> FALSE, readIndex |-> FALSE]
  ELSE IF deviceType \notin DOMAIN deviceTypeToBackendType
    THEN [ok |-> FALSE, backend |-> NoBackend, cache |-> deviceTypeToBackend,
          readTypeMap |-> TRUE, readIndex |-> FALSE]
  ELSE LET backendType == deviceTypeToBackendType[deviceType] IN
    IF backendType \in DOMAIN backendTypeToBackend
      THEN [ok |-> TRUE, backend |-> backendTypeToBackend[backendType],
            cache |-> Put(deviceTypeToBackend, deviceType,
                          backendTypeToBackend[backendType]),
            readTypeMap |-> TRUE, readIndex |-> TRUE]
      ELSE [ok |-> FALSE, backend |-> NoBackend, cache |-> deviceTypeToBackend,
            readTypeMap |-> TRUE, readIndex |-> TRUE]

\* A caller calls getBackend(deviceType).
CallGetBackend(deviceType) ==
  LET r == GetBackend(deviceType) IN
    /\ deviceTypeToBackend' = r.cache
    /\ prevCall' = lastCall
    /\ lastCall' = [op |-> "getBackend", dev |-> deviceType, ok |-> r.ok,
                    backend |-> r.backend, readTypeMap |-> r.readTypeMap,
                    readIndex |-> r.readIndex,
                    changed |-> r.cache # deviceTypeToBackend,
                    name |-> NoName]
    /\ UNCHANGED <<deviceTypeToBackendType, backendTypeToBackend, store, rvars>>
    /\ UNCHANGED <<bvars, inert>>

\* release_resources without backendTypeToBackend_.clear().
ReleaseResourcesKeepIndex ==
  /\ store' = FALSE
  /\ deviceTypeToBackend' = EmptyMap
  /\ prevCall' = lastCall
  /\ lastCall' = [NoCall EXCEPT !.op = "release_resources", !.ok = TRUE]
  /\ inert' = TRUE
  /\ UNCHANGED <<deviceTypeToBackendType, backendTypeToBackend, rvars, bvars>>

\* release_resources without deviceTypeToBackend_.clear().
ReleaseResourcesKeepCache ==
  /\ store' = FALSE
  /\ backendTypeToBackend' = EmptyMap
  /\ prevCall' = lastCall
  /\ lastCall' = [NoCall EXCEPT !.op = "release_resources", !.ok = TRUE]
  /\ inert' = TRUE
  /\ UNCHANGED <<deviceTypeToBackendType, deviceTypeToBackend, rvars, bvars>>

\* ProcessGroup::release_resources().
ReleaseResources ==
  /\ store' = FALSE
  /\ deviceTypeToBackend' = EmptyMap
  /\ backendTypeToBackend' = EmptyMap
  /\ prevCall' = lastCall
  /\ lastCall' = [NoCall EXCEPT !.op = "release_resources", !.ok = TRUE,
                    !.changed = store \/ deviceTypeToBackend # EmptyMap
                                \/ backendTypeToBackend # EmptyMap]
  /\ inert' = TRUE
  /\ UNCHANGED <<deviceTypeToBackendType, rvars, bvars>>

\* The backends the device-type cache refers to: the ones a loop over
\* deviceTypeToBackend_ visits.
CachedBackends == Range(deviceTypeToBackend)

UnchangedMaps ==
  UNCHANGED <<deviceTypeToBackendType, backendTypeToBackend,
              deviceTypeToBackend, store, inert>>

\* ProcessGroup::getGroupName(): fails on an empty device-type cache, else
\* the uid of the backend of begin(), some entry of the unordered map.
GetGroupName ==
  /\ prevCall' = lastCall
  /\ IF deviceTypeToBackend = EmptyMap
       THEN lastCall' = [NoCall EXCEPT !.op = "getGroupName"]
       ELSE \E d \in DOMAIN deviceTypeToBackend :
              lastCall' = [NoCall EXCEPT !.op = "getGroupName", !.ok = TRUE,
                             !.backend = deviceTypeToBackend[d],
                             !.name = backendUid[deviceTypeToBackend[d]]]
  /\ UnchangedMaps
  /\ UNCHANGED <<bvars, rvars>>

\* The backends the setters of the group reach.
SetterTargets == CachedBackends

\* ProcessGroup::setGroupName(name).
SetGroupName(name) ==
  /\ backendUid' = [b \in Backends |->
                      IF b \in SetterTargets THEN name ELSE backendUid[b]]
  /\ prevCall' = lastCall
  /\ lastCall' = [NoCall EXCEPT !.op = "setGroupName", !.ok = TRUE,
                    !.name = name, !.changed = backendUid' # backendUid]
  /\ UnchangedMaps
  /\ UNCHANGED <<pgDesc, backendDesc, backendTiming, rvars>>

\* ProcessGroup::setGroupDesc(name).
SetGroupDesc(name) ==
  /\ pgDesc' = name
  /\ backendDesc' = [b \in Backends |->
                       IF b \in SetterTargets THEN name ELSE backendDesc[b]]
  /\ prevCall' = lastCall
  /\ lastCall' = [NoCall EXCEPT !.op = "setGroupDesc", !.ok = TRUE,
                    !.name = name,
                    !.changed = backendDesc' # backendDesc \/ pgDesc' # pgDesc]
  /\ UnchangedMaps
  /\ UNCHANGED <<backendUid, backendTiming, rvars>>

\* ProcessGroup::enableCollectivesTiming().
EnableCollectivesTiming ==
  /\ backendTiming' = [b \in Backends |->
                         b \in SetterTargets \/ backendTiming[b]]
  /\ prevCall' = lastCall
  /\ lastCall' = [NoCall EXCEPT !.op = "enableCollectivesTiming", !.ok = TRUE,
                    !.changed = backendTiming' # backendTiming]
  /\ UnchangedMaps
  /\ UNCHANGED <<pgDesc, backendUid, backendDesc, rvars>>

\* The device-type cache holds, for a device type, the instance the
\* backend-type index holds for its configured backend type.
CacheConsistent(cache, typeMap, index) ==
  \A d \in DOMAIN cache :
    /\ d \in DOMAIN typeMap
    /\ typeMap[d] \in DOMAIN index
    /\ cache[d] = index[typeMap[d]]

\* A group after construction and setup: a device-type to backend-type
\* configuration, the backends attached, and the device types already
\* resolved; constructed with or without a store.
GroupStart ==
  /\ deviceTypeToBackendType \in PartialMaps(DeviceTypes, BackendTypes)
  /\ backendTypeToBackend \in PartialMaps(BackendTypes, Backends)
  /\ deviceTypeToBackend \in PartialMaps(DeviceTypes, Backends)
  /\ CacheConsistent(deviceTypeToBackend, deviceTypeToBackendType,
                     backendTypeToBackend)
  /\ store \in BOOLEAN
  /\ lastCall = NoCall
  /\ prevCall = NoCall
  /\ pgDesc = NoName
  /\ backendUid = [b \in Backends |-> NoName]
  /\ backendDesc = [b \in Backends |-> NoName]
  /\ backendTiming = [b \in Backends |-> FALSE]
  /\ inert = FALSE

GroupNext ==
  \/ \E deviceType \in DeviceTypes : CallGetBackend(deviceType)
  \/ ReleaseResources
  \/ GetGroupName
  \/ \E name \in Names : SetGroupName(name)
  \/ \E name \in Names : SetGroupDesc(name)
  \/ EnableCollectivesTiming

\* ------------------------------------------------- threads and their calls
\* Handles are numbered in the order WorkRegistry::register_work inserts them.
NoArg == NoStorage
Crashed == \E t \in Threads : pc[t] = "crashed"
Running == ~destroyed /\ ~Crashed
Issued == 1..nextWork
InsertedFor(storage) == {w \in Issued : regTensor[w] = storage}
InRegistry(r) == UNION {Range(r[k]) : k \in DOMAIN r}

\* Threads are interchangeable: while every thread is outside the registry,
\* the one that calls next is named t1.
MayCall(t) ==
  /\ pc[t] = "idle"
  /\ (\A u \in Threads : pc[u] = "idle") => t = "t1"

\* The caller's locals are dead once the call has returned.
ClearLocals(t) ==
  /\ arg' = [arg EXCEPT ![t] = NoArg]
  /\ works' = [works EXCEPT ![t] = <<>>]
  /\ idx' = [idx EXCEPT ![t] = 1]
  /\ owed' = [owed EXCEPT ![t] = {}]
  /\ doneAtBegin' = [doneAtBegin EXCEPT ![t] = {}]

\* No call on the registry changes the environment or the group.
UnchangedEnv == UNCHANGED <<cudaAvailable, capturing, gvars>>
UnchangedTeardown == UNCHANGED <<warnings, released, destroyed>>
UnchangedHandles == UNCHANGED <<defined, status, nextWork, regTensor>>
UnchangedLocals == UNCHANGED <<arg, works, idx, owed, doneAtBegin>>
UnchangedHistory ==
  UNCHANGED <<waitCount, pruned, popped, waitCalled, sweepCalled>>

\* Every member function of WorkRegistry holds lock_ from its first statement
\* to its return: a critical section is one step, taken when the lock is
\* free and leaving it free.
Locked(t) == lock = Free
Unlock(t) == lock' = Free

\* pop_works returning with lock_ still held by the caller.
PopWorksKeepLock(t) == lock' = t

\* pop_works returns: its unique_lock goes out of scope before wait_tensor
\* reaches the first work->wait().
PopWorksUnlock(t) == Unlock(t)

\* c10d::register_work(tensor, work), up to the return of
\* can_unregister_completed_works, whose result decides whether it prunes.
\* tensor and work are not read before WorkRegistry::register_work.
CallRegisterWork(t) ==
  /\ Running /\ MayCall(t)
  /\ Locked(t) /\ Unlock(t)
  /\ doneAtBegin' = [doneAtBegin EXCEPT ![t] =
                       {w \in InRegistry(registry) : defined[w] /\ IsCompleted(w)}]
  /\ pc' = [pc EXCEPT ![t] =
              IF CanUnregisterCompletedWorks THEN "rw_prune" ELSE "rw_reg"]
  /\ UNCHANGED <<registry, arg, works, idx, owed>>
  /\ UnchangedEnv /\ UnchangedTeardown /\ UnchangedHistory /\ UnchangedHandles

\* The handles unregister_completed_works drops from r.
Dropped(r) == InRegistry(r) \ InRegistry(UnregisterCompletedWorks(r))

\* c10d::register_work: RankLocal<WorkRegistry>::get().unregister_completed_works().
PruneBeforeRegister(t) ==
  /\ Running /\ pc[t] = "rw_prune"
  /\ Locked(t) /\ Unlock(t)
  /\ registry' = UnregisterCompletedWorks(registry)
  /\ pruned' = pruned \cup Dropped(registry)
  /\ pc' = [pc EXCEPT ![t] = "rw_reg"]
  /\ UNCHANGED <<waitCount, popped, waitCalled, sweepCalled>>
  /\ UnchangedEnv /\ UnchangedTeardown /\ UnchangedHandles /\ UnchangedLocals

\* c10d::unregister_completed_works(): the sweep, whatever the capture state.
UnregisterCompleted(t) ==
  /\ Running /\ MayCall(t)
  /\ Locked(t) /\ Unlock(t)
  /\ registry' = UnregisterCompletedWorks(registry)
  /\ pruned' = pruned \cup Dropped(registry)
  /\ sweepCalled' = TRUE
  /\ UNCHANGED <<pc, waitCount, popped, waitCalled>>
  /\ UnchangedEnv /\ UnchangedTeardown /\ UnchangedHandles /\ UnchangedLocals

\* register_work without the has_storage() test: the work is filed under
\* the key of the storage-less tensor.
RegisterWithoutStorageTest(t) ==
  /\ Running /\ pc[t] = "rw_reg" /\ nextWork < MaxWorks
  /\ registry' = RegistryInsert(registry, NoStorage, nextWork + 1)
  /\ nextWork' = nextWork + 1
  /\ regTensor' = [regTensor EXCEPT ![nextWork + 1] = NoStorage]
  /\ arg' = [arg EXCEPT ![t] = NoStorage]
  /\ doneAtBegin' = [doneAtBegin EXCEPT ![t] = {}]
  /\ pc' = [pc EXCEPT ![t] = "rw_done"]
  /\ UNCHANGED <<lock, defined, status, works, idx, owed>>
  /\ UnchangedEnv /\ UnchangedTeardown /\ UnchangedHistory

\* WorkRegistry::register_work on a tensor without storage: it warns (once
\* per process) and returns.
RegisterNoStorage(t) ==
  /\ Running /\ pc[t] = "rw_reg"
  /\ arg' = [arg EXCEPT ![t] = NoStorage]
  /\ doneAtBegin' = [doneAtBegin EXCEPT ![t] = {}]
  /\ pc' = [pc EXCEPT ![t] = "rw_done"]
  /\ UNCHANGED <<registry, lock, works, idx, owed>>
  /\ UnchangedEnv /\ UnchangedTeardown /\ UnchangedHistory /\ UnchangedHandles

\* Storages are interchangeable: the first one a handle is inserted for is
\* named s1.
MayInsertFor(tensor) == tensor \in Storages /\ (nextWork = 0 => tensor = "s1")

\* WorkRegistry::register_work on a tensor with storage: emplace or
\* push_back. The handle may be an undefined intrusive_ptr.
RegisterInsert(t, tensor, def) ==
  /\ Running /\ pc[t] = "rw_reg" /\ MayInsertFor(tensor) /\ nextWork < MaxWorks
  /\ Locked(t) /\ Unlock(t)
  /\ registry' = RegistryInsert(registry, tensor, nextWork + 1)
  /\ nextWork' = nextWork + 1
  /\ defined' = [defined EXCEPT ![nextWork + 1] = def]
  /\ regTensor' = [regTensor EXCEPT ![nextWork + 1] = tensor]
  /\ arg' = [arg EXCEPT ![t] = tensor]
  /\ doneAtBegin' = [doneAtBegin EXCEPT ![t] = {}]
  /\ pc' = [pc EXCEPT ![t] = "rw_done"]
  /\ UNCHANGED <<status, works, idx, owed>>
  /\ UnchangedEnv /\ UnchangedTeardown /\ UnchangedHistory

\* c10d::wait_tensor(tensor), up to the return of pop_works: the list is
\* copied out and the entry erased. pop_works reads tensor.storage() without
\* a has_storage() test, so callers pass tensors that have storage.
CallWaitTensor(t, tensor) ==
  /\ Running /\ MayCall(t) /\ tensor \in Storages
  /\ Locked(t) /\ PopWorksUnlock(t)
  /\ arg' = [arg EXCEPT ![t] = tensor]
  /\ waitCalled' = TRUE
  /\ owed' = [owed EXCEPT ![t] =
                {w \in InsertedFor(tensor) \ InRegistry(registry) :
                   defined[w] /\ ~IsCompleted(w)}]
  /\ works' = [works EXCEPT ![t] = PopWorksResult(registry, tensor)]
  /\ registry' = PopWorksRegistry(registry, tensor)
  /\ idx' = [idx EXCEPT ![t] = 1]
  /\ popped' = popped \cup Range(works'[t])
  /\ pc' = [pc EXCEPT ![t] = IF works'[t] = <<>> THEN "wt_done" ELSE "wt_wait"]
  /\ UNCHANGED <<doneAtBegin, waitCount, pruned, sweepCalled>>
  /\ UnchangedEnv /\ UnchangedTeardown /\ UnchangedHandles

\* The range-for of wait_tensor: the work it is at, and where it goes next.
CurrentWork(t) == works[t][idx[t]]
AfterWork(t) == IF idx[t] = Len(works[t]) THEN "wt_done" ELSE "wt_wait"

\* wait_tensor: work->wait() on a defined handle. wait() blocks until the
\* operation has finished; it returns if the operation succeeded and throws
\* if it failed, and the exception leaves wait_tensor.
WaitWork(t, outcome) ==
  /\ Running /\ pc[t] = "wt_wait"
  /\ LET w == CurrentWork(t) IN
       /\ defined[w] /\ IsCompleted(w)
       /\ waitCount' = [waitCount EXCEPT ![w] = @ + 1]
       /\ IF outcome = "returns"
            THEN /\ pc' = [pc EXCEPT ![t] = AfterWork(t)]
                 /\ idx' = [idx EXCEPT ![t] = @ + 1]
            ELSE /\ pc' = [pc EXCEPT ![t] = "wt_raised"]
                 /\ idx' = idx
  /\ UNCHANGED <<registry, lock, arg, works, owed, doneAtBegin,
                 pruned, popped, waitCalled, sweepCalled>>
  /\ UnchangedEnv /\ UnchangedTeardown /\ UnchangedHandles

\* wait_tensor: work->wait() through an undefined intrusive_ptr is a null
\* dereference: the process dies, or the call has no effect.
WaitUndefined(t, outcome) ==
  /\ Running /\ pc[t] = "wt_wait"
  /\ ~defined[CurrentWork(t)]
  /\ IF outcome = "crash"
       THEN pc' = [pc EXCEPT ![t] = "crashed"] /\ idx' = idx
       ELSE pc' = [pc EXCEPT ![t] = AfterWork(t)] /\ idx' = [idx EXCEPT ![t] = @ + 1]
  /\ UNCHANGED <<registry, lock, arg, works, owed, doneAtBegin>>
  /\ UnchangedEnv /\ UnchangedTeardown /\ UnchangedHandles /\ UnchangedHistory

\* c10d::get_work_registry_size(): it returns GetWorkRegistrySize(registry)
\* and changes nothing.
GetSize(t) ==
  /\ Running /\ MayCall(t)
  /\ Locked(t) /\ Unlock(t)
  /\ UNCHANGED <<registry, pc>>
  /\ UnchangedEnv /\ UnchangedTeardown /\ UnchangedHistory /\ UnchangedHandles
  /\ UnchangedLocals

\* The call has returned (or thrown) to the caller.
Return(t) ==
  /\ Running /\ pc[t] \in {"rw_done", "wt_done", "wt_raised"}
  /\ pc' = [pc EXCEPT ![t] = "idle"]
  /\ ClearLocals(t)
  /\ UNCHANGED <<registry, lock>>
  /\ UnchangedEnv /\ UnchangedTeardown /\ UnchangedHistory /\ UnchangedHandles

\* ------------------------------------------------------------ environment
\* The collective behind a handle finishes, successfully or with an error.
Complete(w) ==
  /\ ~Crashed /\ w \in Issued /\ defined[w] /\ status[w] = "pending"
  /\ status' = [status EXCEPT ![w] = "completed"]
  /\ UNCHANGED <<registry, lock, pc, defined, nextWork, regTensor>>
  /\ UnchangedEnv /\ UnchangedTeardown /\ UnchangedHistory /\ UnchangedLocals

\* ~WorkRegistry, at process termination: no caller is inside the registry.
\* It warns with the size if it is positive and releases every handle.
Destroy ==
  /\ Running /\ lock = Free /\ \A t \in Threads : pc[t] = "idle"
  /\ LET registry_size == GetWorkRegistrySize(registry) IN
       warnings' = IF registry_size > 0 THEN Append(warnings, registry_size)
                   ELSE warnings
  /\ released' = InRegistry(registry)
  /\ registry' = EmptyMap
  /\ destroyed' = TRUE
  /\ UNCHANGED <<lock, pc>>
  /\ UnchangedEnv /\ UnchangedHistory /\ UnchangedHandles /\ UnchangedLocals

\* ------------------------------------------------------- the registry spec
\* A run is made in one environment: with or without a CUDA device, and, with
\* one, inside or outside a CUDA graph capture.
RegistryInit ==
  /\ registry = EmptyMap
  /\ lock = Free
  /\ pc = [t \in Threads |-> "idle"]
  /\ arg = [t \in Threads |-> NoArg]
  /\ works = [t \in Threads |-> <<>>]
  /\ idx = [t \in Threads |-> 1]
  /\ defined = [w \in Works |-> TRUE]
  /\ status = [w \in Works |-> "pending"]
  /\ nextWork = 0
  /\ cudaAvailable \in BOOLEAN
  /\ capturing \in {b \in BOOLEAN : b => cudaAvailable}
  /\ warnings = <<>>
  /\ released = {}
  /\ destroyed = FALSE
  /\ regTensor = [w \in Works |-> "unregistered"]
  /\ waitCount = [w \in Works |-> 0]
  /\ pruned = {}
  /\ popped = {}
  /\ waitCalled = FALSE
  /\ sweepCalled = FALSE
  /\ owed = [t \in Threads |-> {}]
  /\ doneAtBegin = [t \in Threads |-> {}]

\* The group is not used by the registry.
GroupIdle ==
  /\ deviceTypeToBackendType = EmptyMap
  /\ backendTypeToBackend = EmptyMap
  /\ deviceTypeToBackend = EmptyMap
  /\ store = FALSE
  /\ lastCall = NoCall
  /\ prevCall = NoCall
  /\ pgDesc = NoName
  /\ backendUid = [b \in Backends |-> NoName]
  /\ backendDesc = [b \in Backends |-> NoName]
  /\ backendTiming = [b \in Backends |-> FALSE]
  /\ inert = FALSE

Init == RegistryInit /\ GroupIdle

Next ==
  \/ \E t \in Threads : CallRegisterWork(t)
  \/ \E t \in Threads : PruneBeforeRegister(t)
  \/ \E t \in Threads : UnregisterCompleted(t)
  \/ \E t \in Threads : RegisterNoStorage(t)
  \/ \E t \in Threads, tensor \in Tensors, def \in BOOLEAN : RegisterInsert(t, tensor, def)
  \/ \E t \in Threads, tensor \in Tensors : CallWaitTensor(t, tensor)
  \/ \E t \in Threads, outcome \in {"returns", "throws"} : WaitWork(t, outcome)
  \/ \E t \in Threads, outcome \in {"crash", "continue"} : WaitUndefined(t, outcome)
  \/ \E t \in Threads : GetSize(t)
  \/ \E t \in Threads : Return(t)
  \/ \E w \in Works : Complete(w)
  \/ Destroy

Spec == Init /\ [][Next]_vars

\* ---------------------------------------------------------- the group spec
\* The registry is not used by the group.
RegistryUnused == RegistryInit /\ ~cudaAvailable

GroupInit == RegistryUnused /\ GroupStart

GroupSpec == GroupInit /\ [][GroupNext]_vars

\* ================================================================ claims
InWaitTensor(t) == pc[t] \in {"wt_wait", "wt_done", "wt_raised"}

\* The step in which thread t's pop_works returns, for storage s.
PopStep(t, s) ==
  pc[t] = "idle" /\ pc'[t] \in {"wt_wait", "wt_done"} /\ arg'[t] = s

\* The step in which WorkRegistry::register_work returns to thread t.
RegisterStep(t) == pc[t] = "rw_reg" /\ pc'[t] = "rw_done"

\* A step of unregister_completed_works, from either caller.
PruneStep ==
  /\ ~destroyed'
  /\ \/ \E t \in Threads : pc[t] = "rw_prune" /\ pc'[t] = "rw_reg"
     \/ pc' = pc /\ registry' # registry

\* The handles inserted for storage s that nothing has removed yet.
Remaining(s) == InsertedFor(s) \ (pruned \cup popped \cup released)

\* ws holds its handles in the order they were inserted.
InInsertionOrder(ws) == \A i, j \in DOMAIN ws : i < j => ws[i] < ws[j]

\* C1: whenever wait_tensor(t) returns normally, every handle registered
\* against t's storage before the call began is completed, in every
\* interleaving. Those handles are the ones the call popped and the ones
\* that had left the registry uncompleted before it began.
C1_SynchronizationPoint ==
  \A t \in Threads :
    pc[t] = "wt_done" =>
      \A w \in owed[t] \cup Range(works[t]) : defined[w] => IsCompleted(w)

\* C2 as stated: after K register_work calls with well-formed handles on one
\* storage, with no wait_tensor and no explicit unregister_completed_works
\* before and no call in progress, the wait_tensor that follows waits on K
\* handles: the list it pops holds all K.
C2_WaitsOnAllRegistered ==
  [][\A t \in Threads, s \in Storages :
       (/\ PopStep(t, s) /\ ~waitCalled /\ ~sweepCalled
        /\ \A u \in Threads : pc[u] = "idle"
        /\ \A w \in InsertedFor(s) : defined[w])
         => Len(works'[t]) = Cardinality(InsertedFor(s))]_vars

\* C2 as amended: wait_tensor pops exactly the handles registered for the
\* storage that no earlier wait_tensor popped and no pruning dropped as
\* completed, each once; when it returns normally wait() has been called
\* exactly once on each defined handle it popped; wait() is called on no
\* handle that was not popped. A second wait_tensor right after therefore
\* pops nothing.
C2_WaitsOnAllRemaining ==
  /\ [][\A t \in Threads, s \in Storages :
          PopStep(t, s) =>
            /\ Range(works'[t]) = InsertedFor(s) \ (pruned \cup popped)
            /\ Len(works'[t]) = Cardinality(Range(works'[t]))
            /\ s \notin DOMAIN registry']_vars
  /\ [](\A t \in Threads :
          pc[t] = "wt_done" =>
            \A w \in Range(works[t]) : defined[w] => waitCount[w] = 1)
  /\ [](\A w \in Works : waitCount[w] > 0 => w \in popped)

C2_Witness ==
  \E t \in Threads :
    /\ pc[t] = "wt_done" /\ Len(works[t]) = 2
    /\ \A w \in Range(works[t]) : waitCount[w] = 1

\* C3: handles registered for one storage are kept and waited in issuance
\* order: while none of them is removed, the storage's list holds all of
\* them, earlier before later, and wait_tensor calls wait() on an earlier
\* handle of the list it popped before a later one.
C3_IssuanceOrder ==
  /\ \A s \in Storages :
       IF s \in DOMAIN registry
         THEN Range(registry[s]) = Remaining(s) /\ InInsertionOrder(registry[s])
         ELSE Remaining(s) = {}
  /\ \A t \in Threads :
       InWaitTensor(t) =>
         /\ InInsertionOrder(works[t])
         /\ \A i, j \in DOMAIN works[t] :
              (i < j /\ defined[works[t][i]] /\ waitCount[works[t][j]] > 0)
                => waitCount[works[t][i]] > 0

C3_Witness ==
  \E t \in Threads :
    /\ pc[t] = "wt_wait" /\ works[t] = <<1, 2>>
    /\ waitCount[1] = 1 /\ waitCount[2] = 0

\* The subsequence of ws of the handles that are not completed.
RECURSIVE NotCompleted(_)
NotCompleted(ws) ==
  IF ws = <<>> THEN <<>>
  ELSE IF status[Head(ws)] = "pending"
    THEN <<Head(ws)>> \o NotCompleted(Tail(ws))
    ELSE NotCompleted(Tail(ws))

AllDefined(r) == \A w \in InRegistry(r) : defined[w]

\* C4: on a registry whose handles are all defined,
\* unregister_completed_works leaves under each key the subsequence of its
\* handles that are not completed, in order, removes a key whose handles were
\* all completed, and get_work_registry_size is the number of handles before
\* and the number of handles not completed after.
C4_Pruning ==
  [][(PruneStep /\ AllDefined(registry)) =>
       /\ DOMAIN registry' =
            {k \in DOMAIN registry :
               \E w \in Range(registry[k]) : status[w] = "pending"}
       /\ \A k \in DOMAIN registry' : registry'[k] = NotCompleted(registry[k])
       /\ GetWorkRegistrySize(registry) = Cardinality(InRegistry(registry))
       /\ GetWorkRegistrySize(registry') =
            Cardinality({w \in InRegistry(registry) : status[w] = "pending"})]_vars

C4_Witness ==
  /\ \A w \in Issued : defined[w]
  /\ ~destroyed /\ popped = {}
  /\ pruned = {1} /\ regTensor[1] = "s1"
  /\ registry = [s \in {"s1"} |-> <<2>>] /\ status[2] = "pending"

\* C5: can_unregister_completed_works returns false exactly when an
\* accelerator is available and a capture is in progress, and true otherwise.
C5_CanUnregister ==
  CanUnregisterCompletedWorks = ~(cudaAvailable /\ capturing)

\* C6: in a run with no capture in progress and no wait_tensor call, when
\* c10d::register_work returns the registry holds no handle that was already
\* completed when the call began.
C6_BoundedGrowth ==
  [][\A t \in Threads :
       (RegisterStep(t) /\ ~capturing /\ ~waitCalled)
         => doneAtBegin[t] \cap InRegistry(registry') = {}]_vars

\* The handles the registry still holds when it is torn down: those inserted
\* that no wait_tensor popped and no pruning dropped.
Unwaited == {w \in Issued : regTensor[w] \in Storages} \ (popped \cup pruned)

\* C7: teardown of a registry holding M >= 1 un-waited handles emits exactly
\* one warning, carrying M, calls wait() on none of them and releases them
\* all; teardown of an empty registry emits no warning.
C7_Teardown ==
  destroyed =>
    /\ warnings = IF Cardinality(Unwaited) >= 1
                    THEN <<Cardinality(Unwaited)>> ELSE <<>>
    /\ released = Unwaited
    /\ \A w \in released : waitCount[w] = 0

C7_Witness == destroyed /\ warnings = <<2>> /\ Cardinality(released) = 2

\* C8: registering a handle against a tensor without storage returns
\* normally, adds no entry and no handle (get_work_registry_size does not
\* grow), and no entry is ever filed under the storage-less tensor, so no
\* wait_tensor can find the handle.
C8_NoStorage ==
  /\ [][\A t \in Threads :
          (RegisterStep(t) /\ arg'[t] = NoStorage) =>
            /\ registry' = registry
            /\ nextWork' = nextWork
            /\ GetWorkRegistrySize(registry') <= GetWorkRegistrySize(registry)]_vars
  /\ [](DOMAIN registry \subseteq Storages)

C8_Witness ==
  \E t \in Threads :
    pc[t] = "rw_done" /\ arg[t] = NoStorage /\ registry # EmptyMap

\* The device type has no configured backend type, or its configured backend
\* type has no instance in the backend-type index.
Unresolvable(deviceType) ==
  \/ deviceType \notin DOMAIN deviceTypeToBackendType
  \/ deviceTypeToBackendType[deviceType] \notin DOMAIN backendTypeToBackend

\* C9: getBackend fails for a device type with no configured backend type
\* and for one whose configured backend type has no instance, and leaves the
\* device-type cache and the backend-type index as they were.
C9_GetBackendFails ==
  (lastCall.op = "getBackend" /\ Unresolvable(lastCall.dev))
    => ~lastCall.ok /\ ~lastCall.changed /\ lastCall.backend = NoBackend

C9_Witness ==
  /\ lastCall.op = "getBackend" /\ ~lastCall.ok
  /\ lastCall.dev \in DOMAIN deviceTypeToBackendType
  /\ prevCall.op = "getBackend" /\ ~prevCall.ok
  /\ prevCall.dev \notin DOMAIN deviceTypeToBackendType

\* C10: of two successive successful getBackend calls with one device type,
\* the second returns the instance the first returned and cached, reads
\* neither the device-type to backend-type map nor the backend-type index,
\* and changes nothing.
C10_GetBackendIdempotent ==
  (/\ lastCall.op = "getBackend" /\ prevCall.op = "getBackend"
   /\ lastCall.dev = prevCall.dev /\ lastCall.ok /\ prevCall.ok)
    => /\ lastCall.backend = prevCall.backend
       /\ lastCall.dev \in DOMAIN deviceTypeToBackend
       /\ deviceTypeToBackend[lastCall.dev] = prevCall.backend
       /\ ~lastCall.readTypeMap /\ ~lastCall.readIndex /\ ~lastCall.changed

C10_Witness ==
  /\ lastCall.op = "getBackend" /\ prevCall.op = "getBackend"
  /\ lastCall.dev = prevCall.dev /\ lastCall.ok /\ prevCall.ok
  /\ prevCall.readIndex /\ prevCall.changed

\* The backends attached to the group: the instances of the backend-type
\* index.
AttachedBackends == Range(backendTypeToBackend)

\* C11: after setGroupName(v), setGroupDesc(v) or enableCollectivesTiming()
\* every backend attached to the group (every instance of the backend-type
\* index) has observed the value, whatever device types have been resolved.
C11_AllBackendsObserve ==
  /\ lastCall.op = "setGroupName" =>
       \A b \in AttachedBackends : backendUid[b] = lastCall.name
  /\ lastCall.op = "setGroupDesc" =>
       \A b \in AttachedBackends : backendDesc[b] = lastCall.name
  /\ lastCall.op = "enableCollectivesTiming" =>
       \A b \in AttachedBackends : backendTiming[b]

\* C12: getGroupName fails exactly when the backend-type index is empty, and
\* when it succeeds it returns the group uid of an attached backend.
C12_GetGroupName ==
  lastCall.op = "getGroupName" =>
    /\ lastCall.ok <=> backendTypeToBackend # EmptyMap
    /\ lastCall.ok =>
         \E b \in AttachedBackends :
           lastCall.backend = b /\ lastCall.name = backendUid[b]

\* A call that asks the group for a backend or for its name.
IsQuery(call) == call.op \in {"getBackend", "getGroupName"}

\* C13: once release_resources has run, the store reference, the device-type
\* cache and the backend-type index are empty, and every later getGroupName
\* and every later getBackend, for any device type, fails and returns
\* nothing.
C13_InertAfterRelease ==
  inert =>
    /\ ~store
    /\ deviceTypeToBackend = EmptyMap
    /\ backendTypeToBackend = EmptyMap
    /\ IsQuery(lastCall) =>
         /\ ~lastCall.ok
         /\ lastCall.backend = NoBackend /\ lastCall.name = NoName
    /\ (IsQuery(prevCall) /\ lastCall.op # "release_resources") =>
         ~prevCall.ok

C13_Witness ==
  /\ inert
  /\ lastCall.op = "getGroupName"
  /\ prevCall.op = "getBackend"
  /\ prevCall.dev \in DOMAIN deviceTypeToBackendType
  /\ \E b \in Backends : backendUid[b] \in Names

\* C15: every backend stored in the device-type cache is the instance the
\* backend-type index holds under the backend type configured for that
\* device type, in every state reached by getBackend, release_resources and
\* the setters from a group that satisfies it.
C15_CacheInIndex ==
  CacheConsistent(deviceTypeToBackend, deviceTypeToBackendType,
                  backendTypeToBackend)

C15_Witness ==
  /\ lastCall.op = "getBackend" /\ lastCall.changed
  /\ prevCall.op = "getBackend" /\ prevCall.changed
  /\ DOMAIN deviceTypeToBackend = DeviceTypes
  /\ DOMAIN backendTypeToBackend = BackendTypes

\* C14: in every reachable state of the registry no storage key maps to an
\* empty handle list.
C14_NoEmptyLists == \A k \in DOMAIN registry : registry[k] # <<>>

C14_Witness ==
  /\ ~destroyed /\ registry = EmptyMap
  /\ \E w \in pruned : w \notin popped
  /\ \E w \in popped : w \notin pruned

\* The other thread's next registry operation can be taken.
CanProceed(u) ==
  /\ pc[u] = "idle" =>
       /\ ENABLED CallRegisterWork(u)
       /\ ENABLED UnregisterCompleted(u)
       /\ ENABLED GetSize(u)
  /\ pc[u] = "rw_prune" => ENABLED PruneBeforeRegister(u)
  /\ pc[u] = "rw_reg" => ENABLED RegisterNoStorage(u)

\* C16: no thread holds the registry lock while it is inside wait_tensor's
\* loop of wait() calls, and while a thread is blocked there every other
\* thread's register_work, unregister_completed_works and
\* get_work_registry_size can take its next step.
C16_WaitOutsideLock ==
  \A t \in Threads :
    /\ InWaitTensor(t) => lock # t
    /\ (pc[t] = "wt_wait" /\ Running) =>
         \A u \in Threads \ {t} : CanProceed(u)

C16_Witness ==
  \E t, u \in Threads :
    /\ pc[t] = "wt_wait" /\ status[CurrentWork(t)] = "pending"
    /\ defined[CurrentWork(t)]
    /\ pc[u] = "rw_done" /\ arg[u] = arg[t]
    /\ arg[t] \in DOMAIN registry

\* C17: isCompleted() is never invoked on a registered handle while an
\* accelerator is available and a capture is in progress: no sweep of
\* unregister_completed_works, from c10d::register_work or from the public
\* c10d::unregister_completed_works, visits a defined handle in such a run.
C17_NoQueryWhileCapturing ==
  [][(PruneStep /\ \E w \in InRegistry(registry) : defined[w])
       => ~(cudaAvailable /\ capturing)]_vars

\* The subsequence of ws of the handles that are defined and not completed.
RECURSIVE DefinedPending(_)
DefinedPending(ws) ==
  IF ws = <<>> THEN <<>>
  ELSE IF defined[Head(ws)] /\ status[Head(ws)] = "pending"
    THEN <<Head(ws)>> \o DefinedPending(Tail(ws))
    ELSE DefinedPending(Tail(ws))

\* C18 as stated: unregister_completed_works drops a handle if and only if
\* it is defined and completed, so an undefined handle stays in its list.
C18_DropsDefinedCompleted ==
  [][PruneStep =>
       \A w \in InRegistry(registry) :
         w \notin InRegistry(registry') <=> (defined[w] /\ IsCompleted(w))]_vars

\* C18 as amended: unregister_completed_works keeps a handle if and only if
\* it is defined and not completed; it drops a handle that is completed and
\* also one that is undefined. Each list keeps the handles that stay in their
\* original order, and a key with none left is removed.
C18_KeepsDefinedPending ==
  [][PruneStep =>
       /\ \A w \in InRegistry(registry) :
            w \in InRegistry(registry') <=> (defined[w] /\ ~IsCompleted(w))
       /\ DOMAIN registry' =
            {k \in DOMAIN registry : DefinedPending(registry[k]) # <<>>}
       /\ \A k \in DOMAIN registry' :
            registry'[k] = DefinedPending(registry[k])]_vars

C18_Witness ==
  /\ ~destroyed /\ popped = {}
  /\ pruned = {1} /\ ~defined[1] /\ regTensor[1] = "s1"
  /\ registry = [s \in {"s1"} |-> <<2>>]

\* C19: no registration is lost: while every handle registered so far is
\* well-formed and pending and no wait_tensor has been called, whatever the
\* interleaving of the register_work calls of the threads, the registry
\* holds exactly the n handles registered, each under its storage, and
\* get_work_registry_size is n.
C19_NoLostRegistration ==
  (/\ ~waitCalled /\ ~destroyed
   /\ \A w \in Issued : defined[w] /\ status[w] = "pending")
    => /\ InRegistry(registry) = Issued
       /\ GetWorkRegistrySize(registry) = nextWork
       /\ \A s \in Storages :
            InsertedFor(s) =
              IF s \in DOMAIN registry THEN Range(registry[s]) ELSE {}

C19_Witness ==
  /\ \A t \in Threads : pc[t] = "rw_done" /\ arg[t] = "s1"
  /\ registry = [s \in {"s1"} |-> <<1, 2>>]
  /\ \A w \in Issued : defined[w] /\ status[w] = "pending"
  /\ ~waitCalled

\* The handles thread t has popped and has still to call wait() on, the one
\* it is blocked in included.
StillToWait(t) ==
  IF pc[t] = "wt_wait"
    THEN {works[t][i] : i \in idx[t]..Len(works[t])}
    ELSE {}

\* C20: with well-formed handles, a handle that is still pending and is no
\* longer in the registry was released at teardown, or wait() has been or is
\* about to be invoked on it by the wait_tensor that popped it; also when an
\* earlier wait() of that wait_tensor failed.
C20_WaitedOrAbandoned ==
  (\A v \in Issued : defined[v]) =>
    \A w \in Issued :
      (status[w] = "pending" /\ w \notin InRegistry(registry)
         /\ w \notin released)
        => \/ waitCount[w] > 0
           \/ \E t \in Threads : w \in StillToWait(t)

====
